---------------------------- MODULE Spec2Model ----------------------------
(***************************************************************************)
(* Weather dashboard server (Express): the request pipeline                *)
(*   express.json -> express.static -> rate limiter -> route handlers ->   *)
(*   404 handler, with the error-handling middleware behind them,          *)
(* the forecast aggregation of GET /api/weather/forecast/:city and the     *)
(* fan-out of POST /api/weather/compare; and the page (public/app.js).     *)
(* Requests overlap: each has a handler of its own, and the steps of the   *)
(* handlers in flight interleave.  Spec puts the limiter under load from   *)
(* two keys, SpecConcurrent lets requests overlap inside the limiter,      *)
(* SpecCity, SpecCompare and SpecApi follow one request through its        *)
(* upstream calls; SpecSearchBox, SpecFavorites and SpecDisplay are the    *)
(* page's.                                                                 *)
(***************************************************************************)
EXTENDS Integers, Sequences, FiniteSets, TLC

(***************************************************************************)
(* Bounds of the model.                                                    *)
(***************************************************************************)
\* the clock runs from 0 to MaxTime seconds
MaxTime == 60
\* consume calls modelled per key and window beyond the quota
MaxExtra == 1
\* while one key has made more than MaxLight calls in its window, the other keys
\* make at most MaxLight in theirs
MaxLight == 1
\* forecast lists of up to MaxSamples samples
MaxSamples == 6
\* compare requests of up to MaxList cities
MaxList == 6
\* at most MaxWaiting requests are between their consume and its continuation
MaxWaiting == 2
\* at most MaxHandlers requests are past the limiter and not answered
MaxHandlers == 2
\* the browser's clock runs from 0 to MaxClock milliseconds
MaxClock == 600
\* at most MaxTimers search timers are set
MaxTimers == 3
\* at most MaxToggles toggleFavorite calls reach their fetch
MaxToggles == 3
\* at most MaxLoads loadWeatherData calls await their responses at a time
MaxLoads == 2

(***************************************************************************)
(* Program constants.                                                      *)
(***************************************************************************)
PointsOneShort == 100 - 1
\* new RateLimiterMemory({ points: 100, ... })
Points == 100
\* new RateLimiterMemory({ duration: 60, ... }), seconds
Duration == 60
\* if (cities.length > 5)
MaxCities == 5
\* dailyForecasts.length < 5
MaxDays == 5
\* setTimeout(() => ..., 300), milliseconds
SearchDelay == 300

\* req.ip values
Keys == {"ip1", "ip2"}

\* the times at which a window can open: the clock moves by half windows
WindowStarts == {t \in 0..MaxTime : t % (Duration \div 2) = 0}

\* the handlers the model follows at a time
Slots == 1..MaxHandlers

VARIABLES
    now,        \* wall clock, seconds
    bucket,     \* rate limiter: key -> Bucket, or NoBucket before the key is seen
    opened,     \* observer, per key: when the key's current window opened
    calls,      \* observer, per key: consume calls made in that window
    apiKey,     \* WEATHER_API_KEY is set
    tz,         \* the server's timezone, hours east of UTC
    handlers,   \* per slot: a request past the limiter, or the last one answered
    waiting,    \* requests whose consume was called and whose await has not returned
    passed,     \* observer, per key and window: the next() calls of the limiter, counted
                \* anew when the key opens a window
    \* the page (public/app.js, class WeatherApp)
    clock,      \* the browser's clock, milliseconds
    inputValue, \* the value of the search box at its last input event
    lastInputAt, \* observer: the time of the last input event, -1 before the first
    searchTimeout, \* this.searchTimeout: a timer id, 0 for null
    timers,     \* the timers set and neither fired nor cleared
    nextTimerId, \* the id the next setTimeout returns
    searched,   \* the queries fetched from /api/cities/search, in order
    favorites,  \* this.favorites
    stored,     \* localStorage.weatherFavorites
    toggles,    \* the toggleFavorite calls that await their fetch
    currentCity, \* this.currentCity
    loads,      \* the loadWeatherData calls that await their responses
    dom,        \* what the page shows: the panels and the city displayed
    geolocation \* navigator.geolocation: "absent", "asked" (getCurrentPosition was
                \* called and has not answered) or "answered"

vars == <<now, bucket, opened, calls, apiKey, tz, handlers, waiting, passed,
          clock, inputValue, lastInputAt, searchTimeout, timers, nextTimerId,
          searched, favorites, stored, toggles, currentCity, loads, dom,
          geolocation>>

\* the server's variables and the page's
server == <<now, bucket, opened, calls, apiKey, tz, handlers, waiting, passed>>
browser == <<clock, inputValue, lastInputAt, searchTimeout, timers, nextTimerId,
             searched, favorites, stored, toggles, currentCity, loads, dom,
             geolocation>>

NoBucket == [points_remaining |-> -1, window_reset_at |-> -1]
NoCities == [isArray |-> FALSE, elems |-> <<>>]
NoReq == [key |-> "", route |-> "", text |-> <<>>, cities |-> NoCities, json |-> TRUE]
NoCoords == [name |-> "", country |-> ""]
NoResp == [status |-> 0, error |-> "", retryAfter |-> -1, limited |-> FALSE,
           next |-> FALSE, body |-> <<>>]
(***************************************************************************)
(* Strings are sequences of one-character strings, so that trim and length *)
(* are computed.  A character that has no escape in a string is written by *)
(* its name.                                                               *)
(***************************************************************************)
\* the characters String.prototype.trim strips, white space and line terminators:
\* TAB, VT, FF, SP, NBSP, ZWNBSP, any other space separator (Zs), LF, CR, LS, PS
WhiteSpace ==
    {"\t", "VT", "\f", " ", "NBSP", "ZWNBSP", "Zs", "\n", "\r", "LS", "PS"}

RECURSIVE TrimStart(_)
TrimStart(s) == IF s # <<>> /\ Head(s) \in WhiteSpace THEN TrimStart(Tail(s)) ELSE s

RECURSIVE TrimEnd(_)
TrimEnd(s) ==
    IF s # <<>> /\ s[Len(s)] \in WhiteSpace
    THEN TrimEnd(SubSeq(s, 1, Len(s) - 1))
    ELSE s

\* String.prototype.trim
Trim(s) == TrimEnd(TrimStart(s))

(***************************************************************************)
(* Responses.  retryAfter is the Retry-After header, -1 when the response  *)
(* carries none; limited says that the rate limiter ran for the request,   *)
(* next that it called next().                                             *)
(***************************************************************************)
\* res.status(status).json({ error, message })
JsonError(status, error) ==
    [status |-> status, error |-> error, retryAfter |-> -1, limited |-> TRUE,
     next |-> TRUE, body |-> <<>>]

\* res.json(payload): status 200
JsonOk(body) ==
    [status |-> 200, error |-> "", retryAfter |-> -1, limited |-> TRUE,
     next |-> TRUE, body |-> body]

\* a response not sent yet
Pending == [NoResp EXCEPT !.limited = TRUE, !.next = TRUE]

(***************************************************************************)
(* Rate limiter (rate-limiter-flexible, RateLimiterMemory): one bucket per *)
(* key, a fixed window that starts with the key's first consume.           *)
(***************************************************************************)
Expired(b, t) == b = NoBucket \/ t >= b.window_reset_at

FreshBucket(t) == [points_remaining |-> Points, window_reset_at |-> t + Duration]

ConsumeLostUpdate(b, t) ==
    LET cur == IF Expired(b, t) THEN FreshBucket(t) ELSE b
    IN  [bucket |-> cur, admitted |-> cur.points_remaining >= 1,
         msBeforeNext |-> cur.window_reset_at - t]

\* rateLimiter.consume(key) at time t: the bucket after the call, whether the
\* promise resolves (admitted) or rejects, and the rejection's msBeforeNext
Consume(b, t) ==
    LET cur == IF Expired(b, t) THEN FreshBucket(t) ELSE b
    IN  IF cur.points_remaining >= 1
        THEN [bucket |-> [cur EXCEPT !.points_remaining = @ - 1],
              admitted |-> TRUE, msBeforeNext |-> cur.window_reset_at - t]
        ELSE [bucket |-> cur, admitted |-> FALSE,
              msBeforeNext |-> cur.window_reset_at - t]
(***************************************************************************)
(* The upstream provider.  An axios.get settles with one of these: a 2xx   *)
(* answer with data, a 2xx answer with an empty list (geocoding), a        *)
(* non-2xx answer (axios rejects, error.response is set) or no answer at   *)
(* all (axios rejects, error.response is not set).                         *)
(***************************************************************************)
HttpErrors == {401, 404, 500, 503}

Ok == [kind |-> "ok", status |-> 200]
Empty == [kind |-> "empty", status |-> 200]
NetworkError == [kind |-> "network", status |-> 0]
HttpError(st) == [kind |-> "http", status |-> st]

\* what a geocoding call may settle with
GeoOutcomes == {Ok, Empty, NetworkError} \cup {HttpError(st) : st \in HttpErrors}
\* what a weather, forecast or search call may settle with
DataOutcomes == {Ok, NetworkError} \cup {HttpError(st) : st \in HttpErrors}

\* the error a failed call throws: thrown by axios, with error.response when the
\* provider answered; thrown by getCityCoordinates ('City not found') without
Thrown(o) == [response |-> o.kind = "http", status |-> o.status]

\* response.data[0] of the geocoder for q
GeoEntry(q) == [name |-> <<"Geo:">> \o q, country |-> "XX"]

\* handleApiError(error, res, context)
HandleApiError(error) ==
    IF error.response
    THEN IF error.status = 404 THEN JsonError(404, "City Not Found")
         ELSE IF error.status = 401 THEN JsonError(500, "API Configuration Error")
         ELSE JsonError(error.status, "Weather Service Error")
    ELSE JsonError(500, "Service Unavailable")
(***************************************************************************)
(* Route handlers, up to their first await.  Each gives the handler's      *)
(* state after its synchronous part: the position, the response if one was *)
(* sent, the upstream calls issued and the compare tasks started.          *)
(***************************************************************************)
Sent(r) == [pc |-> "idle", resp |-> r, upstream |-> 0, tasks |-> <<>>]

Awaiting(p, n, t) == [pc |-> p, resp |-> Pending, upstream |-> n, tasks |-> t]

NoResult == [city |-> <<>>, pending |-> TRUE]

\* cities.map(async (city) => ...): every task runs to its first await, the
\* geocoding call of getCityCoordinates
StartTasks(elems) ==
    [i \in 1..Len(elems) |->
        [city |-> elems[i], pc |-> "geo", coords |-> NoCoords, failed |-> "",
         result |-> NoResult]]

\* app.get('/health')
Health == Sent(JsonOk(<<>>))

NotFoundAsServerError == Sent(JsonError(500, "Internal Server Error"))

\* the 404 handler, reached when no route matches
NotFound == Sent(JsonError(404, "Not Found"))

\* the error-handling middleware, reached by next(err): 500, whatever the error
ErrorHandler ==
    Sent([JsonError(500, "Internal Server Error") EXCEPT !.limited = FALSE,
                                                          !.next = FALSE])

\* validateCity, then the handler of /api/weather/current/:city or
\* /api/weather/forecast/:city up to getCityCoordinates' axios.get
CityRoute(r) ==
    IF Len(Trim(r.text)) = 0
    THEN Sent(JsonError(400, "Validation Error"))
    ELSE Awaiting("geo", 1, <<>>)

CompareRouteOffByOne(r) ==
    IF ~r.cities.isArray \/ Len(r.cities.elems) = 0
    THEN Sent(JsonError(400, "Validation Error"))
    ELSE IF Len(r.cities.elems) >= MaxCities
    THEN Sent(JsonError(400, "Validation Error"))
    ELSE Awaiting("compare", Len(r.cities.elems), StartTasks(r.cities.elems))

\* app.post('/api/weather/compare') up to Promise.all
CompareRoute(r) ==
    IF ~r.cities.isArray \/ Len(r.cities.elems) = 0
    THEN Sent(JsonError(400, "Validation Error"))
    ELSE IF Len(r.cities.elems) > MaxCities
    THEN Sent(JsonError(400, "Validation Error"))
    ELSE Awaiting("compare", Len(r.cities.elems), StartTasks(r.cities.elems))

SearchRouteMinOne(r) ==
    IF Len(Trim(r.text)) < 1
    THEN Sent(JsonError(400, "Validation Error"))
    ELSE Awaiting("search", 1, <<>>)

\* app.get('/api/cities/search/:query') up to its axios.get
SearchRoute(r) ==
    IF Len(Trim(r.text)) < 2
    THEN Sent(JsonError(400, "Validation Error"))
    ELSE Awaiting("search", 1, <<>>)

ValidateApiKeyLast(key, then) ==
    IF then.pc = "idle" THEN then
    ELSE IF ~key THEN Sent(JsonError(500, "Configuration Error")) ELSE then

\* validateApiKey, in front of the four API routes
ValidateApiKey(key, then) ==
    IF ~key THEN Sent(JsonError(500, "Configuration Error")) ELSE then

\* express's router: the first route that matches, else the 404 handler
Route(r, key) ==
    CASE r.route = "health" -> Health
      [] r.route \in {"current", "forecast"} -> ValidateApiKey(key, CityRoute(r))
      [] r.route = "compare" -> ValidateApiKey(key, CompareRoute(r))
      [] r.route = "search" -> ValidateApiKey(key, SearchRoute(r))
      [] OTHER -> NotFound

(***************************************************************************)
(* Handlers.  Every request has its own req and res and, past the limiter, *)
(* its own handler, whose steps interleave with those of the others.  A    *)
(* slot holds a handler in flight (pc is not "idle") or, for the           *)
(* properties to read, the request answered last, until the next request   *)
(* arrives.  consumed is what the                                          *)
(* limiter's consume gave for the request and exhausted whether its key    *)
(* had used up its quota when it arrived.                                  *)
(***************************************************************************)
NoConsume == [admitted |-> FALSE, msBeforeNext |-> -1, window |-> -1]

\* what the middleware has of a consume: that it resolved, or the rejection rejRes
\* with its msBeforeNext and, for the observer, the window it was rejected in
Consumed(c, w) ==
    IF c.admitted
    THEN [admitted |-> TRUE, msBeforeNext |-> -1, window |-> -1]
    ELSE [admitted |-> FALSE, msBeforeNext |-> c.msBeforeNext, window |-> w]

NoHandler ==
    [pc |-> "idle", req |-> NoReq, resp |-> NoResp, upstream |-> 0,
     answers |-> <<>>, coords |-> NoCoords, tasks |-> <<>>, settled |-> <<>>,
     forecastData |-> <<>>, consumed |-> NoConsume, exhausted |-> FALSE]

\* the handler of request r after the synchronous part h of its chain
Handler(r, c, ex, h) ==
    [NoHandler EXCEPT !.pc = h.pc, !.req = r, !.resp = h.resp,
                      !.upstream = h.upstream, !.tasks = h.tasks,
                      !.consumed = c, !.exhausted = ex]

\* slot s holds no handler in flight
Idle(s) == handlers[s].pc = "idle"

\* the slot a request's handler takes: the first that holds none in flight
FreeSlot == CHOOSE s \in Slots : Idle(s) /\ \A g \in 1..(s - 1) : ~Idle(g)

\* the handlers in flight: the request answered last is forgotten
InFlight == [g \in Slots |-> IF Idle(g) THEN NoHandler ELSE handlers[g]]

\* handler x in slot s; once x is answered it is the request answered last
Put(s, x) ==
    IF x.pc = "idle"
    THEN [g \in Slots |->
            IF g = s THEN x ELSE IF Idle(g) THEN NoHandler ELSE handlers[g]]
    ELSE [handlers EXCEPT ![s] = x]

\* observer: the key has no window yet, or its window of 60 seconds is over
WindowOver(k) == opened[k] < 0 \/ now - opened[k] >= 60

\* observer: the key has used up its quota, 100 consume calls in its open window
Exhausted(k) == ~WindowOver(k) /\ calls[k] >= 100

(***************************************************************************)
(* The middleware chain of one request.                                    *)
(***************************************************************************)
\* express.json(), mounted first: a body that does not parse is passed on with
\* next(err), which skips every middleware up to the error-handling one
ExpressJson(r) ==
    /\ ~r.json
    /\ \E s \in Slots : Idle(s)
    /\ handlers' = Put(FreeSlot, Handler(r, NoConsume, Exhausted(r.key), ErrorHandler))
    /\ UNCHANGED <<browser, now, bucket, opened, calls, apiKey, tz, waiting, passed>>

\* express.static('public'), mounted before the rate limiter: a path that names a
\* file of public/ is answered here and the chain ends
ServeStatic(r) ==
    /\ r.json
    /\ r.route = "static"
    /\ \E s \in Slots : Idle(s)
    /\ handlers' = Put(FreeSlot, Handler(r, NoConsume, Exhausted(r.key),
                                         Sent([NoResp EXCEPT !.status = 200])))
    /\ UNCHANGED <<browser, now, bucket, opened, calls, apiKey, tz, waiting, passed>>

\* the limiter's answer to a rejected consume
TooManyRequests(rejRes) == [JsonError(429, "Too many requests") EXCEPT !.next = FALSE]

ConsumeKeyShared(r) == "ip1"

\* the key the middleware consumes for: rateLimiter.consume(req.ip)
ConsumeKey(r) == r.key

(***************************************************************************)
(* The rate limiting middleware, app.use(async (req, res, next) => ...),   *)
(* in its two steps: the call of consume, which updates the bucket before  *)
(* it returns its promise, and the continuation of the await, next() or    *)
(* the catch and 429.  Other requests run between the two, and the         *)
(* continuations run in any order.                                         *)
(***************************************************************************)
Without(q, i) == [n \in 1..(Len(q) - 1) |-> IF n < i THEN q[n] ELSE q[n + 1]]

\* await rateLimiter.consume(req.ip), up to the await
LimiterCall(r) ==
    /\ r.json
    /\ r.route # "static"
    /\ Len(waiting) < MaxWaiting
    /\ LET c == Consume(bucket[ConsumeKey(r)], now)
           w == IF WindowOver(r.key) THEN now ELSE opened[r.key]
           n == IF WindowOver(r.key) THEN 1 ELSE calls[r.key] + 1
           e == Consumed(c, w)
       IN  /\ bucket' = [bucket EXCEPT ![ConsumeKey(r)] = c.bucket]
           /\ opened' = [opened EXCEPT ![r.key] = w]
           /\ calls' = [calls EXCEPT ![r.key] = n]
           /\ waiting' = Append(waiting, [req |-> r, admitted |-> e.admitted,
                                          msBeforeNext |-> e.msBeforeNext,
                                          window |-> w,
                                          exhausted |-> Exhausted(r.key)])
    /\ passed' = IF WindowOver(r.key)
                  THEN [passed EXCEPT ![r.key] = [w \in WindowStarts |-> 0]]
                  ELSE passed
    /\ handlers' = InFlight
    /\ UNCHANGED <<browser, now, apiKey, tz>>

\* the await returns for the i-th waiting request: next() and the route's handler
\* up to its first await, or the catch and 429
LimiterReturn(i) ==
    /\ i \in DOMAIN waiting
    /\ \E s \in Slots : Idle(s)
    /\ LET e == waiting[i]
           c == [admitted |-> e.admitted, msBeforeNext |-> e.msBeforeNext,
                 window |-> IF e.admitted THEN -1 ELSE e.window]
           h == IF e.admitted THEN Route(e.req, apiKey) ELSE Sent(TooManyRequests(e))
       IN  /\ handlers' = Put(FreeSlot, Handler(e.req, c, e.exhausted, h))
           /\ passed' = IF h.resp.next
                         THEN [passed EXCEPT ![e.req.key][e.window] = @ + 1]
                         ELSE passed
    /\ waiting' = Without(waiting, i)
    /\ UNCHANGED <<browser, now, bucket, opened, calls, apiKey, tz>>

\* a request arrives and runs to its first await, or to its response
Request(r) == ExpressJson(r) \/ ServeStatic(r) \/ LimiterCall(r)

\* time passes, half a window at a time
Tick ==
    /\ now + Duration \div 2 <= MaxTime
    /\ now' = now + Duration \div 2
    /\ UNCHANGED <<browser, waiting, passed, bucket, opened, calls, apiKey, tz, handlers>>
(***************************************************************************)
(* Numbers.  Temperatures and wind speeds are carried in tenths, rain in   *)
(* thousandths of a millimetre, so that rounding is computed.              *)
(***************************************************************************)
\* Math.round of a value given in tenths
Round(tenths) == (tenths + 5) \div 10

\* Math.round(speed * 3.6 || 0), speed in tenths of m/s
WindKmh(tenths) == (tenths * 36 + 50) \div 100

\* the rain values below 10 mm, in thousandths, whose product with 100 falls just
\* below the half as a binary double (1.255 * 100 is 125.49999999999999)
BelowHalf ==
    {145, 285, 565, 575, 1005, 1015, 1025, 1035, 1255, 1265, 1275, 2135, 2155,
     2175, 2195, 2385, 2405, 2425, 2445, 4015, 4145, 4185, 4225, 4265, 4395,
     4435, 4475, 4515, 4645, 4685, 4725, 4765, 4895, 4935, 4975, 5015, 8075,
     8155, 8165, 8245, 8325, 8405, 8415, 8495, 8575, 8655, 8665, 8745, 8825,
     8905, 8915, 8995, 9075, 9155, 9165, 9245, 9325, 9405, 9415, 9495, 9575,
     9655, 9665, 9745, 9825, 9905, 9915, 9995}

\* Math.round(mm * 100) / 100, in hundredths; mm in thousandths, below 10 mm.  The
\* product is a double: where it falls below the half, Math.round rounds down
Precipitation(thousandths) ==
    IF thousandths \in BelowHalf
    THEN thousandths \div 10
    ELSE (thousandths + 5) \div 10

(***************************************************************************)
(* Forecast aggregation (GET /api/weather/forecast/:city).                 *)
(***************************************************************************)
\* new Date(item.dt * 1000).toDateString(): the calendar day in the server's zone
DayKey(dt, z) == (dt + z * 3600) \div (24 * 3600)

\* date.toISOString().split('T')[0]: the calendar day in UTC
IsoDate(dt) == dt \div (24 * 3600)

\* date.toLocaleDateString('en-US', { weekday: 'long' }), 0 = Sunday; day 0 of the
\* epoch was a Thursday
DayName(dt, z) == (DayKey(dt, z) + 4) % 7

\* the object pushed to dailyForecasts for item
Summary(item, z) ==
    [date |-> IsoDate(item.dt),
     dayName |-> DayName(item.dt, z),
     min |-> Round(item.temp_min),
     max |-> Round(item.temp_max),
     description |-> item.description,
     humidity |-> item.humidity,
     windSpeed |-> WindKmh(item.wind_speed),
     precipitation |-> Precipitation(item.rain)]

\* if (!processedDays.has(dayKey) && dailyForecasts.length < 5)
Keeps(daily, processedDays, item, z) ==
    DayKey(item.dt, z) \notin processedDays /\ Len(daily) < MaxDays

\* forecastData.forEach(item => ...) from item i on
RECURSIVE ForEach(_, _, _, _, _)
ForEach(list, i, daily, processedDays, z) ==
    IF i > Len(list) THEN daily
    ELSE IF Keeps(daily, processedDays, list[i], z)
    THEN ForEach(list, i + 1, Append(daily, Summary(list[i], z)),
                 processedDays \cup {DayKey(list[i].dt, z)}, z)
    ELSE ForEach(list, i + 1, daily, processedDays, z)

\* dailyForecasts after the loop
Aggregate(list, z) == ForEach(list, 1, <<>>, {}, z)

(***************************************************************************)
(* Continuations of the single-city handlers, each that of the handler in  *)
(* slot s.                                                                 *)
(***************************************************************************)
\* the handler sends response r and ends
Finish(x, r) == [x EXCEPT !.pc = "idle", !.resp = r]

\* the handler's call settled with o
Answered(x, o) == [x EXCEPT !.answers = Append(@, o)]

\* getCityCoordinates' axios.get settles
GeoDone(s, o) ==
    /\ handlers[s].pc = "geo"
    /\ LET x == Answered(handlers[s], o)
       IN  handlers' =
              Put(s, IF o = Ok
                     THEN [x EXCEPT !.coords = GeoEntry(x.req.text),
                                    !.upstream = @ + 1,
                                    !.pc = IF x.req.route = "current"
                                           THEN "weather" ELSE "forecast"]
                     ELSE Finish(x, HandleApiError(Thrown(o))))
    /\ UNCHANGED <<browser, waiting, passed, now, bucket, opened, calls, apiKey, tz>>

\* data.main.temp of the weather answer for a place, tenths of a degree
TempOf(name) == 200 + 7 * Len(name)

\* the current-weather call settles
WeatherDone(s, o) ==
    /\ handlers[s].pc = "weather"
    /\ LET x == Answered(handlers[s], o)
       IN  handlers' =
              Put(s, Finish(x, IF o = Ok
                               THEN JsonOk(<<[name |-> x.coords.name,
                                              country |-> x.coords.country,
                                              temperature |-> Round(TempOf(x.coords.name))]>>)
                               ELSE HandleApiError(Thrown(o))))
    /\ UNCHANGED <<browser, waiting, passed, now, bucket, opened, calls, apiKey, tz>>

\* the forecast call settles, with list as forecastResponse.data.list
ForecastDone(s, o, list) ==
    /\ handlers[s].pc = "forecast"
    /\ o # Ok => list = <<>>
    /\ LET x == Answered(handlers[s], o)
       IN  handlers' =
              Put(s, IF o = Ok
                     THEN Finish([x EXCEPT !.forecastData = list],
                                 JsonOk(Aggregate(list, tz)))
                     ELSE Finish(x, HandleApiError(Thrown(o))))
    /\ UNCHANGED <<browser, waiting, passed, now, bucket, opened, calls, apiKey, tz>>

\* the search call settles
SearchDone(s, o) ==
    /\ handlers[s].pc = "search"
    /\ LET x == Answered(handlers[s], o)
       IN  handlers' =
              Put(s, Finish(x, IF o = Ok
                               THEN JsonOk(<<[name |-> GeoEntry(x.req.text).name,
                                              country |-> GeoEntry(x.req.text).country]>>)
                               ELSE HandleApiError(Thrown(o))))
    /\ UNCHANGED <<browser, waiting, passed, now, bucket, opened, calls, apiKey, tz>>

(***************************************************************************)
(* The compare fan-out: one task per city, settled in any order.           *)
(***************************************************************************)
\* the catch of a task: return { city: city, error: ... }
Failure(city) == [city |-> city.v, error |-> "Failed to fetch weather data"]

\* the value a task returns after both calls
Success(c) ==
    [city |-> c.name, country |-> c.country, temperature |-> Round(TempOf(c.name))]

\* task i's promise fulfils with result; call names the call that failed, if one did
Settle(x, i, call, result) ==
    [x EXCEPT !.tasks[i].pc = "done", !.tasks[i].failed = call,
              !.tasks[i].result = result, !.settled = Append(@, i)]

\* task i's geocoding call settles
TaskGeoDone(s, i, o) ==
    /\ handlers[s].pc = "compare"
    /\ i \in DOMAIN handlers[s].tasks
    /\ handlers[s].tasks[i].pc = "geo"
    /\ LET x == handlers[s]
       IN  handlers' =
              Put(s, IF o = Ok
                     THEN [x EXCEPT !.tasks[i].pc = "weather",
                                    !.tasks[i].coords = GeoEntry(x.tasks[i].city.v),
                                    !.upstream = @ + 1]
                     ELSE Settle(x, i, "geo", Failure(x.tasks[i].city)))
    /\ UNCHANGED <<browser, waiting, passed, now, bucket, opened, calls, apiKey, tz>>

\* task i's weather call settles
TaskWeatherDone(s, i, o) ==
    /\ handlers[s].pc = "compare"
    /\ i \in DOMAIN handlers[s].tasks
    /\ handlers[s].tasks[i].pc = "weather"
    /\ LET x == handlers[s]
       IN  handlers' =
              Put(s, IF o = Ok
                     THEN Settle(x, i, "", Success(x.tasks[i].coords))
                     ELSE Settle(x, i, "weather", Failure(x.tasks[i].city)))
    /\ UNCHANGED <<browser, waiting, passed, now, bucket, opened, calls, apiKey, tz>>

PromiseAllBySettlement(ts, order) == [i \in DOMAIN ts |-> ts[order[i]].result]
\* the value of Promise.all(weatherPromises): the tasks' values by position
PromiseAll(ts, order) == [i \in DOMAIN ts |-> ts[i].result]

CompareRespondRace(s) ==
    /\ handlers[s].pc = "compare"
    /\ \E i \in DOMAIN handlers[s].tasks : handlers[s].tasks[i].pc = "done"
    /\ LET x == handlers[s]
       IN  handlers' = Put(s, Finish(x, JsonOk(PromiseAll(x.tasks, x.settled))))
    /\ UNCHANGED <<browser, waiting, passed, now, bucket, opened, calls, apiKey, tz>>

CompareRespondFailFast(s) ==
    /\ handlers[s].pc = "compare"
    /\ \A i \in DOMAIN handlers[s].tasks : handlers[s].tasks[i].pc = "done"
    /\ LET x == handlers[s]
       IN  handlers' =
              Put(s, Finish(x, IF \E i \in DOMAIN x.tasks : x.tasks[i].failed # ""
                               THEN HandleApiError(Thrown(NetworkError))
                               ELSE JsonOk(PromiseAll(x.tasks, x.settled))))
    /\ UNCHANGED <<browser, waiting, passed, now, bucket, opened, calls, apiKey, tz>>

\* await Promise.all(weatherPromises) returns; res.json({ comparison: results })
CompareRespond(s) ==
    /\ handlers[s].pc = "compare"
    /\ \A i \in DOMAIN handlers[s].tasks : handlers[s].tasks[i].pc = "done"
    /\ LET x == handlers[s]
       IN  handlers' = Put(s, Finish(x, JsonOk(PromiseAll(x.tasks, x.settled))))
    /\ UNCHANGED <<browser, waiting, passed, now, bucket, opened, calls, apiKey, tz>>
(***************************************************************************)
(* The page (public/app.js).  Its panels are visible or hidden (the class  *)
(* 'hidden'); city is the place the weather sections were last filled for. *)
(***************************************************************************)
NothingShown ==
    [loading |-> FALSE, error |-> FALSE, currentWeather |-> FALSE,
     forecastSection |-> FALSE, city |-> <<>>]

\* the panels as the document has them when the script runs: the class 'hidden'
\* is the document's own, the constructor sets it on no panel
Documents ==
    [loading : BOOLEAN, error : BOOLEAN, currentWeather : BOOLEAN,
     forecastSection : BOOLEAN, city : {<<>>}]

\* the server's variables, which the page's steps leave alone
ServerUnchanged == UNCHANGED server

(***************************************************************************)
(* The search box: handleSearchInput and its debounce timer.               *)
(***************************************************************************)
ClearTimeoutNothing(ts, id) == ts

\* if (this.searchTimeout) clearTimeout(this.searchTimeout): the timers left
ClearTimeout(ts, id) == IF id # 0 THEN {t \in ts : t.id # id} ELSE ts

\* an input event on the search box, its value being v
HandleSearchInput(v) ==
    LET query == Trim(v)
        left == ClearTimeout(timers, searchTimeout)
    IN  /\ inputValue' = v
        /\ lastInputAt' = clock
        /\ IF Len(query) < 2
           THEN /\ timers' = left
                /\ UNCHANGED <<searchTimeout, nextTimerId>>
           ELSE /\ nextTimerId <= MaxTimers
                /\ timers' = left \cup {[id |-> nextTimerId, at |-> clock + SearchDelay,
                                          query |-> query]}
                /\ searchTimeout' = nextTimerId
                /\ nextTimerId' = nextTimerId + 1
        /\ UNCHANGED <<geolocation, clock, searched, favorites, stored, toggles, currentCity, loads,
                       dom>>
        /\ ServerUnchanged

\* timer t fires: searchCities(query) fetches /api/cities/search/<query>
TimerFires(t) ==
    /\ t \in timers
    /\ clock >= t.at
    /\ timers' = timers \ {t}
    /\ searched' = Append(searched, t.query)
    /\ UNCHANGED <<geolocation, clock, inputValue, lastInputAt, searchTimeout, nextTimerId, favorites,
                   stored, toggles, currentCity, loads, dom>>
    /\ ServerUnchanged

\* the browser's clock advances
ClockTick ==
    /\ clock + SearchDelay \div 3 <= MaxClock
    /\ clock' = clock + SearchDelay \div 3
    /\ UNCHANGED <<geolocation, inputValue, lastInputAt, searchTimeout, timers, nextTimerId, searched,
                   favorites, stored, toggles, currentCity, loads, dom>>
    /\ ServerUnchanged

(***************************************************************************)
(* Favorites: toggleFavorite, removeFavorite, clearFavorites.  A city is   *)
(* [name, country]; its key is the pair, as `${cityName},${country}` is.   *)
(* A call of toggleFavorite that fetches is kept in toggles with its       *)
(* state: "pending" while it awaits, then "added" or "failed".             *)
(***************************************************************************)
\* this.favorites.findIndex(fav => fav.key === cityKey), 0 for -1
FindIndex(favs, key) ==
    IF \E i \in 1..Len(favs) : favs[i].key = key
    THEN CHOOSE i \in 1..Len(favs) :
            favs[i].key = key /\ \A j \in 1..(i - 1) : favs[j].key # key
    ELSE 0

\* the entry pushed for a city: the key and the temperature fetched
Favorite(c) == [key |-> c, temperature |-> Round(TempOf(c.name))]

\* this.favorites.filter(fav => fav.key !== cityKey)
RECURSIVE FilterOut(_, _)
FilterOut(favs, key) ==
    IF favs = <<>> THEN <<>>
    ELSE IF Head(favs).key = key THEN FilterOut(Tail(favs), key)
    ELSE <<Head(favs)>> \o FilterOut(Tail(favs), key)

\* localStorage.getItem('weatherFavorites') when nothing was stored: null
NoItem == [item |-> "null", list |-> <<>>]

\* JSON.stringify(this.favorites): the text of the list
Stringify(favs) == [item |-> "json", list |-> favs]

\* a stored item that is not JSON text
Garbled == [item |-> "garbled", list |-> <<>>]

\* loadFavorites(): the list parsed from the stored item, [] when there is none or
\* when JSON.parse throws
LoadFavorites(st) == IF st.item = "json" THEN st.list ELSE <<>>

\* saveFavorites() after this.favorites became favs: localStorage.setItem stores the
\* text of the list, or throws (ok is FALSE), which is caught and leaves the stored
\* item as it was
SaveFavorites(favs, ok) ==
    /\ favorites' = favs
    /\ stored' = IF ok THEN Stringify(favs) ELSE stored

\* toggleFavorite(cityName, country, button) up to its await: a favorite is
\* removed and the list saved, any other city is fetched
ToggleFavorite(c, ok) ==
    /\ IF FindIndex(favorites, c) > 0
       THEN /\ SaveFavorites(Without(favorites, FindIndex(favorites, c)), ok)
            /\ UNCHANGED toggles
       ELSE /\ Len(toggles) < MaxToggles
            /\ toggles' = Append(toggles, [key |-> c, state |-> "pending"])
            /\ UNCHANGED <<favorites, stored>>
    /\ UNCHANGED <<geolocation, clock, inputValue, lastInputAt, searchTimeout, timers, nextTimerId,
                   searched, currentCity, loads, dom>>
    /\ ServerUnchanged

\* the fetch of the i-th call settles: on a 2xx answer the city is pushed and the
\* list saved, else the call returns
ToggleFetched(i, o, ok) ==
    /\ i \in DOMAIN toggles
    /\ toggles[i].state = "pending"
    /\ IF o = Ok
       THEN /\ SaveFavorites(Append(favorites, Favorite(toggles[i].key)), ok)
            /\ toggles' = [toggles EXCEPT ![i].state = "added"]
       ELSE /\ toggles' = [toggles EXCEPT ![i].state = "failed"]
            /\ UNCHANGED <<favorites, stored>>
    /\ UNCHANGED <<geolocation, clock, inputValue, lastInputAt, searchTimeout, timers, nextTimerId,
                   searched, currentCity, loads, dom>>
    /\ ServerUnchanged

\* removeFavorite(cityKey)
RemoveFavorite(c, ok) ==
    /\ SaveFavorites(FilterOut(favorites, c), ok)
    /\ UNCHANGED <<geolocation, clock, inputValue, lastInputAt, searchTimeout, timers, nextTimerId,
                   searched, toggles, currentCity, loads, dom>>
    /\ ServerUnchanged

\* clearFavorites(), the user answering the confirm dialog
ClearFavorites(confirmed, ok) ==
    /\ IF confirmed THEN SaveFavorites(<<>>, ok) ELSE UNCHANGED <<favorites, stored>>
    /\ UNCHANGED <<geolocation, clock, inputValue, lastInputAt, searchTimeout, timers, nextTimerId,
                   searched, toggles, currentCity, loads, dom>>
    /\ ServerUnchanged

(***************************************************************************)
(* The weather display: loadWeatherData and its callers.                   *)
(***************************************************************************)
\* hideWeatherSections()
HideWeatherSections(d) == [d EXCEPT !.currentWeather = FALSE, !.forecastSection = FALSE]

\* showLoading(): the indicator is shown and the weather sections are hidden
ShowLoading(d) == HideWeatherSections([d EXCEPT !.loading = TRUE])

\* hideLoading()
HideLoading(d) == [d EXCEPT !.loading = FALSE]

\* showError(message): the panel is shown and the weather sections are hidden
ShowError(d) == HideWeatherSections([d EXCEPT !.error = TRUE])

\* hideError()
HideError(d) == [d EXCEPT !.error = FALSE]

\* showWeatherSections()
ShowWeatherSections(d) == [d EXCEPT !.currentWeather = TRUE, !.forecastSection = TRUE]

\* displayCurrentWeather(data); displayForecast(data): the sections are filled
Display(d, city) == [d EXCEPT !.city = city]

\* loadWeatherData(city) up to its await: both fetches are issued
LoadWeatherData(city) ==
    /\ Len(loads) < MaxLoads
    /\ dom' = HideError(ShowLoading(dom))
    /\ loads' = Append(loads, [city |-> city])

\* searchCity(query): Enter in the search box, or the search button
SearchCity(query) ==
    /\ currentCity' = query
    /\ LoadWeatherData(query)
    /\ UNCHANGED <<geolocation, clock, inputValue, lastInputAt, searchTimeout, timers, nextTimerId,
                   searched, favorites, stored, toggles>>
    /\ ServerUnchanged

\* const cityKey = country ? `${cityName}, ${country}` : cityName
CityKey(c) == IF c.country # "" THEN c.name \o <<",", " ">> \o <<c.country>> ELSE c.name

\* selectCity(cityName, country): a search result or a favorite is clicked
SelectCity(c) ==
    /\ currentCity' = CityKey(c)
    /\ LoadWeatherData(CityKey(c))
    /\ UNCHANGED <<geolocation, clock, inputValue, lastInputAt, searchTimeout, timers, nextTimerId,
                   searched, favorites, stored, toggles>>
    /\ ServerUnchanged

\* the retry button: if (this.currentCity) this.loadWeatherData(this.currentCity)
Retry ==
    /\ currentCity # <<>>
    /\ LoadWeatherData(currentCity)
    /\ UNCHANGED <<geolocation, clock, inputValue, lastInputAt, searchTimeout, timers, nextTimerId,
                   searched, favorites, stored, toggles, currentCity>>
    /\ ServerUnchanged

\* the city of loadDefaultCity, 'Toronto', as the model writes it
DefaultCity == <<"t", "o">>

\* loadDefaultCity() with navigator.geolocation: getCurrentPosition answers, with a
\* position or with an error, and either callback loads 'Toronto'; currentCity is
\* not set.  Without navigator.geolocation the load starts in the constructor
LoadDefaultCity ==
    /\ geolocation = "asked"
    /\ geolocation' = "answered"
    /\ LoadWeatherData(DefaultCity)
    /\ UNCHANGED <<clock, inputValue, lastInputAt, searchTimeout, timers, nextTimerId,
                   searched, favorites, stored, toggles, currentCity>>
    /\ ServerUnchanged

\* the i-th call's fetches settle, with oc for current and of for forecast: both
\* 2xx and the weather is shown, else the catch shows the error.  With an empty
\* city the paths match no route and neither answer is 2xx
LoadSettled(i, oc, of) ==
    /\ i \in DOMAIN loads
    /\ loads[i].city = <<>> => (oc # Ok /\ of # Ok)
    /\ dom' = IF oc = Ok /\ of = Ok
              THEN ShowWeatherSections(HideLoading(Display(dom, loads[i].city)))
              ELSE ShowError(HideLoading(dom))
    /\ loads' = Without(loads, i)
    /\ UNCHANGED <<geolocation, clock, inputValue, lastInputAt, searchTimeout, timers, nextTimerId,
                   searched, favorites, stored, toggles, currentCity>>
    /\ ServerUnchanged

(***************************************************************************)
(* Requests and upstream answers the model draws from.                     *)
(***************************************************************************)
Chars(a, b) == <<a, b>>

\* a city name, a blank parameter, a one-letter query and one between white space
Toronto == Chars("t", "o")
Blank == <<" ">>
OneLetter == <<"a">>
PaddedLetter == <<" ", "a", "\t">>

Get(k, route, text) ==
    [key |-> k, route |-> route, text |-> text, cities |-> NoCities, json |-> TRUE]

Post(k, cities) ==
    [key |-> k, route |-> "compare", text |-> <<>>, cities |-> cities, json |-> TRUE]

\* the request with a body that is not JSON: req.body stays undefined
BadJson(r) == [r EXCEPT !.json = FALSE, !.cities = NoCities]

\* requests of the rate limiter's specification
RLRequests ==
    {Get(k, route, <<>>) : k \in Keys, route \in {"static", "health", "unmatched"}}
        \cup {Get("ip1", "search", Toronto)}
        \cup {BadJson(Post("ip1", NoCities))}

\* requests of the single-city specification
CityRequests ==
    {Get("ip1", route, text) : route \in {"current", "forecast"}, text \in {Toronto, Blank}}
        \cup {Get("ip1", "search", text) : text \in {Toronto, OneLetter, PaddedLetter}}

\* elements of a cities array: strings, and one that is a number
Str(v) == [str |-> TRUE, v |-> v]
CityPool ==
    <<Str(Toronto), Str(Chars("n", "x")), Str(Chars("p", "a")),
      Str(Chars("r", "o")), Str(Chars("o", "s"))>>
NotAString == [str |-> FALSE, v |-> Chars("4", "2")]

\* the first n cities of the pool, cyclically
FirstCities(n) == [i \in 1..n |-> CityPool[((i - 1) % Len(CityPool)) + 1]]

Reverse(q) == [i \in 1..Len(q) |-> q[Len(q) + 1 - i]]

\* req.body.cities: missing or not an array, arrays of 0..MaxList strings, and
\* arrays that hold a non-string
CitiesValues ==
    {NoCities}
        \cup {[isArray |-> TRUE, elems |-> FirstCities(n)] : n \in 0..MaxList}
        \cup {[isArray |-> TRUE, elems |-> Reverse(FirstCities(3))],
              [isArray |-> TRUE, elems |-> <<NotAString>>],
              [isArray |-> TRUE, elems |-> <<Str(Toronto), NotAString>>]}

CompareRequests == {Post("ip1", c) : c \in CitiesValues}

\* forecast samples: two of day 0 late in the evening (UTC), one of day 1 an hour
\* after midnight, then one a day; the first has 1.255 mm of rain
SampleAt(h, t) ==
    [dt |-> h * 3600, temp_min |-> t, temp_max |-> t + 31, description |-> "rain",
     humidity |-> 50 + (h % 7), wind_speed |-> 35 + (h % 5), rain |-> 1233 + h]
Samples ==
    {SampleAt(22, 101), SampleAt(23, 115), SampleAt(25, 97), SampleAt(47, 126),
     SampleAt(71, 84), SampleAt(95, -25), SampleAt(119, 140)}

\* the lists of up to n samples, in any order
ForecastListsUpTo(n) == UNION {[1..m -> Samples] : m \in 0..n}

\* forecastResponse.data.list: any list of up to MaxSamples samples
ForecastLists == ForecastListsUpTo(MaxSamples)

\* the server's zone: UTC, or one hour east
TzOffsets == {0, 1}

\* the cities whose star is clicked
Cities == {[name |-> Toronto, country |-> "CA"], [name |-> Chars("p", "a"), country |-> "FR"]}

\* localStorage.weatherFavorites as earlier visits left it: nothing, one favorite,
\* the same favorite twice, and text that does not parse
StoredItems ==
    LET to == Favorite([name |-> Toronto, country |-> "CA"])
    IN  {NoItem, Stringify(<<to>>), Stringify(<<to, to>>), Garbled}

\* navigator.geolocation when the page is opened: there, or not
Geolocations == {"asked", "absent"}

(***************************************************************************)
(* Specifications.                                                         *)
(***************************************************************************)
\* the page after new WeatherApp(): nothing typed, no timer, the favorites read
\* from localStorage, no city chosen; loadDefaultCity has called getCurrentPosition
\* or, without navigator.geolocation, loadWeatherData('Toronto')
InitPage(items, geos, docs) ==
    /\ clock = 0
    /\ inputValue = <<>>
    /\ lastInputAt = -1
    /\ searchTimeout = 0
    /\ timers = {}
    /\ nextTimerId = 1
    /\ searched = <<>>
    /\ stored \in items
    /\ favorites = LoadFavorites(stored)
    /\ toggles = <<>>
    /\ currentCity = <<>>
    /\ geolocation \in geos
    /\ loads = IF geolocation = "absent" THEN <<[city |-> DefaultCity]>> ELSE <<>>
    /\ \E d \in docs :
          dom = IF geolocation = "absent" THEN HideError(ShowLoading(d)) ELSE d

\* the server after app.listen: no bucket, no request
InitServer(key, zones) ==
    /\ now = 0
    /\ bucket = [k \in Keys |-> NoBucket]
    /\ opened = [k \in Keys |-> -1]
    /\ calls = [k \in Keys |-> 0]
    /\ apiKey \in key
    /\ tz \in zones
    /\ handlers = [s \in Slots |-> NoHandler]
    /\ waiting = <<>>
    /\ passed = [k \in Keys |-> [w \in WindowStarts |-> 0]]

\* the server, and a page opened for the first time
InitWith(key, zones) == InitServer(key, zones) /\ InitPage({NoItem}, {"asked"}, {NothingShown})

\* the server with its key configured, under load from the keys
Init == InitWith({TRUE}, {0})

\* the page opened in any browser, after any earlier visits
InitVisit == InitServer({TRUE}, {0}) /\ InitPage(StoredItems, Geolocations, Documents)

\* the consume calls of key k in its window, the next one included
CallsWith(k) == IF WindowOver(k) THEN 1 ELSE calls[k] + 1

Heavy(k) == ~WindowOver(k) /\ calls[k] > MaxLight

\* the load the model generates: per window at most MaxExtra calls beyond the
\* quota, and one heavy key at a time
Load(r) ==
    (r.json /\ r.route # "static") =>
        /\ CallsWith(r.key) <= Points + MaxExtra
        /\ (\E j \in Keys \ {r.key} : Heavy(j)) => CallsWith(r.key) <= MaxLight

\* key k is between the start of its window and its quota
Mid(k) == Heavy(k) /\ calls[k] < Points - 1

\* the requests vary at the start of a window and around the quota; while a key is
\* in between, the load is that key's health checks
Varied(r) == (\E k \in Keys : Mid(k)) => (r = Get(r.key, "health", <<>>) /\ Mid(r.key))

\* a request arrives once the limiter has passed the one before it on, and a search
\* once no handler is in flight: the other requests arrive while the search's call
\* is awaited
InTurn(r) == waiting = <<>> /\ (r.route = "search" => \A s \in Slots : Idle(s))

\* the search call of this specification is answered or fails without an answer;
\* SpecCity draws every outcome
Next ==
    \/ Tick
    \/ \E r \in RLRequests : Load(r) /\ Varied(r) /\ InTurn(r) /\ Request(r)
    \/ \E i \in 1..MaxWaiting : LimiterReturn(i)
    \/ \E s \in Slots, o \in {Ok, NetworkError} : SearchDone(s, o)

Spec == Init /\ [][Next]_vars

\* requests that arrive while others wait in the limiter; their route answers
\* without an upstream call
ConcurrentRequests == {Get(k, "health", <<>>) : k \in Keys}

\* the load of this specification: a key's window that opened at time 0 stays light
LoadLate(r) ==
    /\ Load(r)
    /\ CallsWith(r.key) > MaxLight => ~WindowOver(r.key) /\ opened[r.key] > 0

NextConcurrent ==
    \/ Tick
    \/ \E r \in ConcurrentRequests : LoadLate(r) /\ LimiterCall(r)
    \/ \E i \in 1..MaxWaiting : LimiterReturn(i)

SpecConcurrent == Init /\ [][NextConcurrent]_vars

\* the values typed into the search box
InputValues == {<<>>, OneLetter, PaddedLetter, Toronto, Toronto \o <<" ">>, Toronto \o <<"r">>}

\* the search box: input events, the clock and the debounce timer
NextSearchBox ==
    \/ ClockTick
    \/ \E v \in InputValues : HandleSearchInput(v)
    \/ \E t \in timers : TimerFires(t)

SpecSearchBox == InitVisit /\ [][NextSearchBox]_vars

\* the favorites: stars clicked, fetches settling, favorites removed and cleared,
\* localStorage.setItem storing or throwing
NextFavorites ==
    \/ \E c \in Cities, ok \in BOOLEAN : ToggleFavorite(c, ok)
    \/ \E i \in 1..MaxToggles, o \in DataOutcomes, ok \in BOOLEAN : ToggleFetched(i, o, ok)
    \/ \E c \in Cities, ok \in BOOLEAN : RemoveFavorite(c, ok)
    \/ \E confirmed \in BOOLEAN, ok \in BOOLEAN : ClearFavorites(confirmed, ok)

SpecFavorites == InitVisit /\ [][NextFavorites]_vars

\* the queries searched for: two cities and the empty text (Enter in an empty box)
Queries == {Toronto, Chars("p", "a"), <<>>}

\* how the two fetches of a load settle
LoadOutcomes == {Ok, HttpError(404), NetworkError}

\* the starts of a load
StartsLoad ==
    \/ LoadDefaultCity
    \/ \E q \in Queries : SearchCity(q)
    \/ \E c \in Cities : SelectCity(c)
    \/ Retry

\* the weather display: loads started by the user and by the geolocation callback
\* while others are in flight, and their responses in any order
NextDisplay ==
    \/ StartsLoad
    \/ \E i \in 1..MaxLoads, oc \in LoadOutcomes, of \in LoadOutcomes : LoadSettled(i, oc, of)

SpecDisplay == InitVisit /\ [][NextDisplay]_vars

\* the same with each load starting after the one before it has ended
NextDisplayInTurn ==
    \/ loads = <<>> /\ StartsLoad
    \/ \E i \in 1..MaxLoads, oc \in LoadOutcomes, of \in LoadOutcomes : LoadSettled(i, oc, of)

SpecDisplayInTurn == InitVisit /\ [][NextDisplayInTurn]_vars

\* no request has arrived yet
FirstRequest ==
    /\ waiting = <<>>
    /\ \A s \in Slots : handlers[s] = NoHandler
    /\ \A k \in Keys : bucket[k] = NoBucket

\* one request to a single-city endpoint
InitCity == InitWith(BOOLEAN, TzOffsets)

NextCity ==
    \/ \E r \in CityRequests : FirstRequest /\ LimiterCall(r)
    \/ \E i \in 1..MaxWaiting : LimiterReturn(i)
    \/ \E s \in Slots, o \in GeoOutcomes : GeoDone(s, o)
    \/ \E s \in Slots, o \in DataOutcomes : WeatherDone(s, o)
    \/ \E s \in Slots :
          /\ handlers[s].pc = "forecast"
          /\ \E o \in DataOutcomes, list \in ForecastLists : ForecastDone(s, o, list)
    \/ \E s \in Slots, o \in DataOutcomes : SearchDone(s, o)

SpecCity == InitCity /\ [][NextCity]_vars

\* one compare request
InitCompare == InitWith(BOOLEAN, {0})

NextCompare ==
    \/ \E r \in CompareRequests : FirstRequest /\ LimiterCall(r)
    \/ \E i \in 1..MaxWaiting : LimiterReturn(i)
    \/ \E s \in Slots, i \in 1..MaxCities, o \in GeoOutcomes : TaskGeoDone(s, i, o)
    \/ \E s \in Slots, i \in 1..MaxCities, o \in DataOutcomes : TaskWeatherDone(s, i, o)
    \/ \E s \in Slots : CompareRespond(s)

SpecCompare == InitCompare /\ [][NextCompare]_vars

\* the compare request as the event loop runs it: the continuations of the awaits
\* run once their promises have settled.  The calls are made without a timeout
\* (axios.get with params only), so nothing obliges a call to settle
SpecCompareLive ==
    /\ SpecCompare
    /\ WF_vars(\E i \in 1..MaxWaiting : LimiterReturn(i))
    /\ WF_vars(\E s \in Slots : CompareRespond(s))

\* the same with a provider that settles every call, with an answer or an error
SpecCompareSettling ==
    /\ SpecCompareLive
    /\ \A s \in Slots, i \in 1..MaxCities :
          /\ WF_vars(\E o \in GeoOutcomes : TaskGeoDone(s, i, o))
          /\ WF_vars(\E o \in DataOutcomes : TaskWeatherDone(s, i, o))

\* one request to any of the four API endpoints, with or without the key and with
\* or without a body that parses; the forecast lists are the short ones
ApiRequests ==
    CityRequests \cup CompareRequests
        \cup {BadJson(Post("ip1", NoCities)), BadJson(Get("ip1", "search", OneLetter))}

NextApi ==
    \/ \E r \in ApiRequests : FirstRequest /\ (ExpressJson(r) \/ LimiterCall(r))
    \/ \E i \in 1..MaxWaiting : LimiterReturn(i)
    \/ \E s \in Slots, o \in GeoOutcomes : GeoDone(s, o)
    \/ \E s \in Slots, o \in DataOutcomes : WeatherDone(s, o)
    \/ \E s \in Slots, o \in DataOutcomes, list \in ForecastListsUpTo(1) : ForecastDone(s, o, list)
    \/ \E s \in Slots, o \in DataOutcomes : SearchDone(s, o)
    \/ \E s \in Slots, i \in 1..MaxCities, o \in GeoOutcomes : TaskGeoDone(s, i, o)
    \/ \E s \in Slots, i \in 1..MaxCities, o \in DataOutcomes : TaskWeatherDone(s, i, o)
    \/ \E s \in Slots : CompareRespond(s)

SpecApi == InitWith(BOOLEAN, {0}) /\ [][NextApi]_vars
(***************************************************************************)
(* Properties.                                                             *)
(***************************************************************************)
\* C1: for every key, the n-th consume call within one 60-second window is admitted
\* when n <= 100 and rejected with 429 when n = 101; once the window is over the
\* count starts again, so the key is admitted up to 100 times more.
C1_QuotaPerWindow ==
    /\ \A i \in DOMAIN waiting : waiting[i].admitted <=> ~waiting[i].exhausted
    /\ \A s \in Slots :
          LET x == handlers[s]
          IN  x.resp.limited =>
                /\ ~x.exhausted => x.resp.status # 429 /\ x.resp.next
                /\ x.exhausted =>
                      x.resp.status = 429 /\ x.resp.error = "Too many requests"

\* the 101st call of a key is rejected, in a window that opened after time 0
C1_Witness ==
    \E s \in Slots :
        /\ handlers[s].resp.status = 429
        /\ handlers[s].exhausted
        /\ handlers[s].consumed.window > 0
        /\ calls[handlers[s].req.key] = 101

\* C2: on any route, static paths included, a request of a key whose quota is used
\* up is answered 429, next() is not called and no upstream call is made.
C2_EveryRouteGated ==
    \A s \in Slots :
        LET x == handlers[s]
        IN  x.exhausted => (x.resp.status = 429 /\ ~x.resp.next /\ x.upstream = 0)

\* C3: every 429 carries a retry delay equal to the time left in the key's window.
C3_RetryAfter ==
    \A s \in Slots :
        LET x == handlers[s]
        IN  x.resp.status = 429 => x.resp.retryAfter = x.consumed.msBeforeNext

\* C4: on current and forecast, when the geocoder finds no match the response is a
\* 404 with an error body.
C4_UnresolvedCityIs404 ==
    \A s \in Slots :
        LET x == handlers[s]
        IN  (x.pc = "idle" /\ x.req.route \in {"current", "forecast"}
                /\ x.answers = <<Empty>>)
                => (x.resp.status = 404 /\ x.resp.error # "")

\* the compare request of handler x has reached its route and been answered, the
\* key being configured
CompareAnswered(x) ==
    x.pc = "idle" /\ x.req.route = "compare" /\ x.resp.next /\ apiKey

\* C5: with the key configured, a compare of 1 to 5 cities is answered 200 with a
\* comparison array of the input's length; one of 0 or more than 5 cities is
\* answered 400 Validation Error and no upstream call is made.
C5_CompareLength ==
    \A s \in Slots :
        LET x == handlers[s]
            n == Len(x.req.cities.elems)
        IN  (CompareAnswered(x) /\ x.req.cities.isArray) =>
                /\ n \in 1..5 => x.resp.status = 200 /\ Len(x.resp.body) = n
                /\ (n = 0 \/ n > 5) =>
                      /\ x.resp.status = 400
                      /\ x.resp.error = "Validation Error"
                      /\ x.upstream = 0

\* five cities are compared
C5_Witness ==
    \E s \in Slots :
        /\ CompareAnswered(handlers[s])
        /\ handlers[s].resp.status = 200
        /\ Len(handlers[s].resp.body) = 5

\* C6: whatever the order in which the lookups settle, element i of the comparison
\* array is the result for input city i.
C6_InputOrder ==
    \A s \in Slots :
        LET x == handlers[s]
        IN  (CompareAnswered(x) /\ x.resp.status = 200) =>
                /\ Len(x.resp.body) = Len(x.req.cities.elems)
                /\ \A i \in 1..Len(x.resp.body) :
                      x.resp.body[i].city \in
                          {x.req.cities.elems[i].v, GeoEntry(x.req.cities.elems[i].v).name}

\* the last of at least three cities settled first and the first settled last
C6_Witness ==
    \E s \in Slots :
        LET x == handlers[s]
        IN  /\ CompareAnswered(x)
            /\ x.resp.status = 200
            /\ Len(x.settled) >= 3
            /\ x.settled[1] = Len(x.settled)
            /\ x.settled[Len(x.settled)] = 1

\* C7: in a compare of 1 to 5 cities, every position whose lookup failed holds a
\* failure entry with the input city and an error, every other position holds that
\* city's data, and the response is 200.
C7_PartialFailure ==
    \A s \in Slots :
        LET x == handlers[s]
        IN  (CompareAnswered(x) /\ x.req.cities.isArray
                /\ Len(x.req.cities.elems) \in 1..5) =>
                /\ x.resp.status = 200
                /\ Len(x.resp.body) = Len(x.tasks)
                /\ \A i \in 1..Len(x.tasks) :
                      IF x.tasks[i].failed # ""
                      THEN x.resp.body[i] = [city |-> x.req.cities.elems[i].v,
                                             error |-> "Failed to fetch weather data"]
                      ELSE /\ x.resp.body[i].city = GeoEntry(x.req.cities.elems[i].v).name
                           /\ "temperature" \in DOMAIN x.resp.body[i]
                           /\ "error" \notin DOMAIN x.resp.body[i]

\* of three cities the second failed in geocoding, the others succeeded
C7_Witness ==
    \E s \in Slots :
        LET x == handlers[s]
        IN  /\ CompareAnswered(x)
            /\ Len(x.tasks) = 3
            /\ x.tasks[1].failed = ""
            /\ x.tasks[2].failed = "geo"
            /\ x.tasks[3].failed = ""
            /\ x.resp.status = 200

\* a cities value that is empty, not an array of strings, or longer than 5
InvalidCities(c) ==
    \/ ~c.isArray
    \/ Len(c.elems) = 0
    \/ Len(c.elems) > 5
    \/ \E i \in 1..Len(c.elems) : ~c.elems[i].str

\* C8: compare answers 400, before any upstream call, every request whose cities is
\* empty, is not a sequence of strings, or has more than 5 elements.
C8_RejectsInvalidCities ==
    \A s \in Slots :
        LET x == handlers[s]
        IN  (x.req.route = "compare" /\ x.req.json /\ x.resp.next /\ apiKey
                /\ InvalidCities(x.req.cities))
                => (x.resp.status = 400 /\ x.upstream = 0)

\* the forecast request of handler x has been answered with a forecast
ForecastAnswered(x) == x.pc = "idle" /\ x.req.route = "forecast" /\ x.resp.status = 200

\* the calendar days of a list: by the samples' own timestamps (UTC), which is
\* also the date a summary carries, and in the server's zone
DatesOf(list) == {IsoDate(list[i].dt) : i \in 1..Len(list)}
ServerDaysOf(list, z) == {DayKey(list[i].dt, z) : i \in 1..Len(list)}

Min(a, b) == IF a <= b THEN a ELSE b

\* C9: for any list of samples the forecast has min(5, number of distinct calendar
\* dates in the list) summaries, never more than 5, and none for an empty list.
C9_SummaryCount ==
    \A s \in Slots :
        LET x == handlers[s]
        IN  ForecastAnswered(x) =>
                /\ Len(x.resp.body) = Min(5, Cardinality(DatesOf(x.forecastData)))
                /\ Len(x.resp.body) <= 5
                /\ x.forecastData = <<>> => x.resp.body = <<>>

\* what holds of the count in every zone: it is min(5, number of distinct days in
\* the server's zone), which is C9's count when the server runs in UTC
SummaryCountByServerDay ==
    \A s \in Slots :
        LET x == handlers[s]
        IN  ForecastAnswered(x) =>
                /\ Len(x.resp.body) = Min(5, Cardinality(ServerDaysOf(x.forecastData, tz)))
                /\ tz = 0 => Len(x.resp.body) = Min(5, Cardinality(DatesOf(x.forecastData)))
                /\ Len(x.resp.body) <= 5
                /\ x.forecastData = <<>> => x.resp.body = <<>>

\* the positions of a list that hold the first sample of their calendar date
FirstOfDate(list) ==
    {i \in 1..Len(list) : \A j \in 1..(i - 1) : IsoDate(list[j].dt) # IsoDate(list[i].dt)}

\* the same, by the day in the server's zone
FirstOfServerDay(list, z) ==
    {i \in 1..Len(list) :
        \A j \in 1..(i - 1) : DayKey(list[j].dt, z) # DayKey(list[i].dt, z)}

\* summary n of x's response is built from the n-th position of first, in scan order
BuiltFrom(x, first) ==
    \A n \in 1..Len(x.resp.body) :
        \E i \in first :
            /\ Cardinality({j \in first : j <= i}) = n
            /\ x.resp.body[n] = Summary(x.forecastData[i], tz)

\* C10: summary n is built from the n-th sample, in scan order, that is the first of
\* its calendar date; later samples of a date change nothing, and the list is not
\* sorted.
C10_FirstSampleWins ==
    \A s \in Slots :
        LET x == handlers[s]
        IN  ForecastAnswered(x) => BuiltFrom(x, FirstOfDate(x.forecastData))

\* what holds in every zone: the first sample of each day of the server's zone
\* wins, which is C10 when the server runs in UTC
FirstSampleOfServerDayWins ==
    \A s \in Slots :
        LET x == handlers[s]
        IN  ForecastAnswered(x) =>
                /\ BuiltFrom(x, FirstOfServerDay(x.forecastData, tz))
                /\ tz = 0 => BuiltFrom(x, FirstOfDate(x.forecastData))

\* C11: in every zone of the server the day a sample is bucketed by is the date its
\* summary carries, so the summaries of one forecast carry pairwise distinct dates.
C11_BucketDateIsEmittedDate ==
    \A s \in Slots :
        LET x == handlers[s]
        IN  ForecastAnswered(x) =>
                /\ \A i \in 1..Len(x.forecastData) :
                      DayKey(x.forecastData[i].dt, tz) = IsoDate(x.forecastData[i].dt)
                /\ \A m, n \in 1..Len(x.resp.body) :
                      m # n => x.resp.body[m].date # x.resp.body[n].date

\* what holds of the dates: they are pairwise distinct when the server runs in UTC
DistinctDatesInUtc ==
    \A s \in Slots :
        LET x == handlers[s]
        IN  (ForecastAnswered(x) /\ tz = 0) =>
                \A m, n \in 1..Len(x.resp.body) :
                    m # n => x.resp.body[m].date # x.resp.body[n].date

\* a list with one sample per calendar date
OnePerDate(list) ==
    \A i, j \in 1..Len(list) : i # j => IsoDate(list[i].dt) # IsoDate(list[j].dt)

\* the list mapped field for field
Mapped(list, z) == [i \in 1..Len(list) |-> Summary(list[i], z)]

\* C12: a list with one sample per calendar date, of at most five dates as any
\* aggregated forecast has, is returned sample by sample: one summary per sample,
\* in the same order, mapped field for field.
C12_IdempotentOnDaily ==
    \A s \in Slots :
        LET x == handlers[s]
        IN  (ForecastAnswered(x) /\ OnePerDate(x.forecastData)
                /\ Len(x.forecastData) <= 5)
                => x.resp.body = Mapped(x.forecastData, tz)

\* what holds: a list with one sample per day of the server's zone is returned
\* sample by sample, which is C12 when the server runs in UTC
IdempotentOnServerDaily ==
    \A s \in Slots :
        LET x == handlers[s]
        IN  (ForecastAnswered(x) /\ Len(x.forecastData) <= 5) =>
                /\ Cardinality(ServerDaysOf(x.forecastData, tz)) = Len(x.forecastData)
                      => x.resp.body = Mapped(x.forecastData, tz)
                /\ (tz = 0 /\ OnePerDate(x.forecastData))
                      => x.resp.body = Mapped(x.forecastData, tz)

\* the request of handler x has reached the routes: the limiter has called next()
ReachedRoutes(x) == x.consumed.admitted /\ x.resp.next

\* C13: without the key, a request that reaches current, forecast, compare or search
\* is answered 500 Configuration Error and no upstream call is made, whether or not
\* its input is valid.
C13_NoKeyShortCircuits ==
    \A s \in Slots :
        LET x == handlers[s]
        IN  (~apiKey /\ ReachedRoutes(x)
                /\ x.req.route \in {"current", "forecast", "compare", "search"}) =>
                /\ x.resp = JsonError(500, "Configuration Error")
                /\ x.pc = "idle"
                /\ x.upstream = 0
                /\ x.tasks = <<>>
                /\ x.answers = <<>>

\* without the key, a search query of one letter is answered 500, not 400
C13_Witness ==
    \E s \in Slots :
        LET x == handlers[s]
        IN  /\ ~apiKey
            /\ ReachedRoutes(x)
            /\ x.req.route = "search"
            /\ Len(Trim(x.req.text)) < 2
            /\ x.resp.status = 500
            /\ x.resp.error = "Configuration Error"

\* the search request of handler x has reached its route, the key being configured
SearchArrived(x) == x.req.route = "search" /\ ReachedRoutes(x) /\ apiKey

\* the search request was forwarded: its geocoding call was issued
Forwarded(x) == x.upstream = 1 /\ (x.pc = "search" \/ x.answers # <<>>)

\* the search request was refused without an upstream call
Refused(x) ==
    /\ x.resp.status = 400
    /\ x.resp.error = "Validation Error"
    /\ x.upstream = 0
    /\ x.pc = "idle"
    /\ x.answers = <<>>

\* C14 as stated: search refuses every query of fewer than 2 characters with 400
\* and no upstream call, and forwards every query of 2 or more characters.
C14_SearchByLength ==
    \A s \in Slots :
        LET x == handlers[s]
        IN  SearchArrived(x) => IF Len(x.req.text) < 2 THEN Refused(x) ELSE Forwarded(x)

\* C14 as the code has it: the characters are counted after trimming.
C14_SearchByTrimmedLength ==
    \A s \in Slots :
        LET x == handlers[s]
        IN  SearchArrived(x) =>
                IF Len(Trim(x.req.text)) < 2 THEN Refused(x) ELSE Forwarded(x)

\* a query of three characters, one of them not white space, is refused
C14_Witness ==
    \E s \in Slots :
        LET x == handlers[s]
        IN  /\ SearchArrived(x)
            /\ Len(x.req.text) >= 2
            /\ Len(Trim(x.req.text)) < 2
            /\ Refused(x)

\* the single-city request of handler x has ended on a failure of the provider
\* other than a 404: another status, or no answer at all
ProviderFailed(x) ==
    /\ x.pc = "idle"
    /\ x.req.route \in {"current", "forecast", "search"}
    /\ x.answers # <<>>
    /\ x.answers[Len(x.answers)].kind \in {"http", "network"}
    /\ x.answers[Len(x.answers)].status # 404

\* C15: on current, forecast and search every failure of the provider other than a
\* 404, its 401 included, is answered 500 with an error body.
C15_ProviderFailureIs500 ==
    \A s \in Slots :
        LET x == handlers[s]
        IN  ProviderFailed(x) => (x.resp.status = 500 /\ x.resp.error # "")

\* what holds: the provider's 401 and a missing answer are answered 500, any other
\* status of the provider is passed through
ProviderFailureMapping ==
    \A s \in Slots :
        LET x == handlers[s]
            last == x.answers[Len(x.answers)]
        IN  ProviderFailed(x) =>
                /\ x.resp.error # ""
                /\ x.resp.status = IF last.kind = "network" \/ last.status = 401
                                    THEN 500 ELSE last.status

\* C16: an admitted request that no route matches is answered 404 Not Found, and
\* its handling ends with that one response.
C16_UnmatchedIs404 ==
    \A s \in Slots :
        LET x == handlers[s]
        IN  (x.req.route = "unmatched" /\ ReachedRoutes(x)) =>
                /\ x.resp = JsonError(404, "Not Found")
                /\ x.pc = "idle"
                /\ x.upstream = 0

\* an unmatched path is answered 404 after the key's first window
C16_Witness ==
    \E s \in Slots :
        LET x == handlers[s]
        IN  /\ x.req.route = "unmatched"
            /\ x.resp.status = 404
            /\ ReachedRoutes(x)
            /\ opened[x.req.key] > 0

\* C17: a compare request whose upstream call stalls still gets its response: the
\* stalled city's task ends, on a timeout, and the batch is answered.
C17_StalledCallTimesOut ==
    \A s \in Slots :
        /\ (handlers[s].pc = "compare") ~> (handlers[s].pc = "idle")
        /\ \A i \in 1..MaxCities :
              (handlers[s].pc = "compare" /\ i \in DOMAIN handlers[s].tasks)
                  ~> (i \in DOMAIN handlers[s].tasks /\ handlers[s].tasks[i].pc = "done")

\* what holds: the batch is answered when the provider settles every call
AnsweredWhenEveryCallSettles ==
    \A s \in Slots : (handlers[s].pc = "compare") ~> (handlers[s].pc = "idle")

\* the tasks of the handler in slot s that changed in this step
Stepped(s) ==
    {i \in DOMAIN handlers[s].tasks : handlers'[s].tasks[i] # handlers[s].tasks[i]}

\* C18: every lookup is started, its geocoding call issued, before any is awaited;
\* the response is sent only once every task has finished; while it waits, a step
\* of the handler is one task's, moves no other task and sends nothing, a failing
\* task included.
C18_StartAllThenJoin ==
    [][\A s \in Slots :
          LET x == handlers[s]
              y == handlers'[s]
          IN  /\ (x.pc = "idle" /\ y.pc = "compare") =>
                    /\ Len(y.tasks) = Len(y.req.cities.elems)
                    /\ \A i \in DOMAIN y.tasks : y.tasks[i].pc = "geo"
                    /\ y.upstream = Len(y.tasks)
              /\ (x.pc = "compare" /\ y.pc = "compare" /\ y # x) =>
                    /\ Cardinality(Stepped(s)) = 1
                    /\ y.resp = x.resp
                    /\ x.resp = Pending
              /\ (x.pc = "compare" /\ y.pc = "idle") =>
                    /\ \A i \in DOMAIN x.tasks : x.tasks[i].pc = "done"
                    /\ y.tasks = x.tasks
                    /\ y.resp.status = 200]_vars

\* of at least two cities the one that settled first had failed, and the answer
\* came after the others had succeeded
C18_Witness ==
    \E s \in Slots :
        LET x == handlers[s]
        IN  /\ CompareAnswered(x)
            /\ x.resp.status = 200
            /\ Len(x.settled) >= 2
            /\ x.tasks[x.settled[1]].failed # ""
            /\ \A n \in 2..Len(x.settled) : x.tasks[x.settled[n]].failed = ""

\* the requests of key k that consume admitted in the window opened at w and that
\* still wait for their continuation
WaitingAdmitted(k, w) ==
    {i \in DOMAIN waiting :
        waiting[i].req.key = k /\ waiting[i].window = w /\ waiting[i].admitted}

\* C19: whatever the interleaving of the requests of one key, at most 100 of those
\* that called consume within one window are admitted (passed on with next()).
C19_NoOverAdmission ==
    \A k \in Keys, w \in WindowStarts :
        passed[k][w] + Cardinality(WaitingAdmitted(k, w)) <= 100

\* the 101st request of a key in a window later than the first was answered 429
\* while the 100th, admitted, still waits for its continuation
C19_Witness ==
    \E s \in Slots :
        LET x == handlers[s]
        IN  /\ x.resp.status = 429
            /\ x.exhausted
            /\ x.consumed.window > 0
            /\ passed[x.req.key][x.consumed.window] = 99
            /\ WaitingAdmitted(x.req.key, x.consumed.window) # {}

\* the balance of key k before a consume: full when its window is over
Balance(k) == IF WindowOver(k) THEN 100 ELSE bucket[k].points_remaining

\* C20: a key's points_remaining is always between 0 and 100; a consume that is
\* admitted takes exactly 1 from the balance, which is 100 when the key's window
\* has expired; one that is rejected leaves it at 0; the other keys' buckets are
\* unchanged, and nothing else changes a bucket.
C20_BucketInvariant ==
    /\ [](\A k \in Keys : bucket[k] = NoBucket \/ bucket[k].points_remaining \in 0..100)
    /\ [][IF Len(waiting') > Len(waiting)
           THEN LET e == waiting'[Len(waiting')]
                    k == e.req.key
                IN  /\ \A j \in Keys \ {k} : bucket'[j] = bucket[j]
                    /\ e.admitted => bucket'[k].points_remaining = Balance(k) - 1
                    /\ ~e.admitted =>
                          /\ Balance(k) = 0
                          /\ bucket'[k].points_remaining = 0
           ELSE bucket' = bucket]_vars

\* a key is rejected with its balance at 0 while the other key has a bucket of its
\* own, in a window later than the first
C20_Witness ==
    \E s \in Slots :
        LET x == handlers[s]
        IN  /\ x.resp.status = 429
            /\ bucket[x.req.key].points_remaining = 0
            /\ x.consumed.window > 0
            /\ \E j \in Keys \ {x.req.key} : bucket[j].points_remaining \in 1..99

\* C21: at most one search timer is pending at any time; a city search is fetched
\* only when 300 ms have passed since the last input event, only for the value of
\* that event (trimmed), and only if the value has at least 2 characters.
C21_Debounce ==
    /\ [](Cardinality(timers) <= 1)
    /\ [][searched' # searched =>
             /\ Len(searched') = Len(searched) + 1
             /\ searched'[Len(searched')] = Trim(inputValue)
             /\ Len(inputValue) >= 2
             /\ lastInputAt >= 0
             /\ clock - lastInputAt >= 300]_vars

\* a search was fetched for the last of three values typed, the timers of the first
\* two having been cancelled
C21_Witness ==
    /\ Len(searched) = 1
    /\ nextTimerId = 4
    /\ timers = {}
    /\ searched[1] = Trim(inputValue)

\* no two favorites have the same key
NoDuplicateKeys ==
    \A i, j \in 1..Len(favorites) : i # j => favorites[i].key # favorites[j].key

\* a fetch of toggleFavorite fails in this step
FetchFails ==
    \E i \in DOMAIN toggles : toggles[i].state = "pending" /\ toggles'[i].state = "failed"

\* C22: whatever the interleaving of toggleFavorite, removeFavorite and
\* clearFavorites, a second toggle of a city while the first one's fetch is in
\* flight included, no step brings a key twice into favorites that held each key
\* once; and a toggle whose fetch fails leaves favorites and the stored copy
\* unchanged.
C22_FavoritesUnique ==
    [][/\ NoDuplicateKeys => NoDuplicateKeys'
       /\ FetchFails => (favorites' = favorites /\ stored' = stored)]_vars

\* what holds: a failed fetch changes neither list, and from favorites without a
\* duplicate a key is there twice only when two of its toggles fetched
FavoritesOtherwise ==
    /\ [][FetchFails => (favorites' = favorites /\ stored' = stored)]_vars
    /\ NoDuplicateKeys =>
          [](~NoDuplicateKeys =>
                \E i, j \in DOMAIN toggles :
                    i # j /\ toggles[i].key = toggles[j].key /\ toggles[j].state = "added")

\* a weather section is visible
SectionsShown == dom.currentWeather \/ dom.forecastSection

\* C23: whatever the interleaving of the loads, in the state a loadWeatherData
\* call or the arrival of its responses leads to the error panel and the weather
\* sections are not visible together, and when no load is in flight any more the
\* loading indicator is hidden and exactly one of the two is visible.
C23_ErrorOrWeather ==
    [][/\ ~(dom'.error /\ SectionsShown')
       /\ loads' = <<>> => (~dom'.loading /\ (dom'.error # SectionsShown'))]_vars

\* what holds when each load ends before the next starts; both sections are
\* shown or hidden together, and while a load is in flight only the loading
\* indicator is visible
ErrorOrWeatherInTurn ==
    [][/\ ~(dom'.error /\ SectionsShown')
       /\ dom'.currentWeather = dom'.forecastSection
       /\ loads' = <<>> => (~dom'.loading /\ (dom'.error # SectionsShown'))
       /\ loads' # <<>> => (dom'.loading /\ ~dom'.error /\ ~SectionsShown')]_vars

\* C24: once all overlapping loads have ended, the weather shown is that of
\* currentCity, the city asked for last.
C24_LastRequestWins ==
    (loads = <<>> /\ currentCity # <<>> /\ SectionsShown) => dom.city = currentCity

\* what holds when each load ends before the next starts: the weather shown is
\* that of the last load, currentCity's or that of the default city
LastRequestWinsInTurn ==
    (loads = <<>> /\ SectionsShown) => dom.city \in {currentCity, DefaultCity}

=============================================================================
